---- MODULE Spec2Model ----
(***************************************************************************)
(* Model of kicad_mcp.utils.library_index: the LibraryIndex object, its    *)
(* SQLite store, and the library trees on disk it indexes.                 *)
(*                                                                         *)
(* The store is modelled as SQLite presents it to Python's sqlite3 module  *)
(* with the default isolation level: DDL statements (DROP / CREATE) run in *)
(* autocommit mode and are visible to other connections at once, while the *)
(* first INSERT opens a transaction whose rows stay private to the writer  *)
(* until conn.commit().                                                    *)
(***************************************************************************)
EXTENDS Integers, Sequences, FiniteSets, TLC

VARIABLES
    clock,      \* time.time(): the time of the latest change made to the disk
    envSet,     \* family -> KICAD_<FAMILY>_DIR is set (to the path "env")
    loc,        \* family -> where the family's library tree is: "none", "env", "share"
    pretty,     \* footprint tree: library -> Absent or [mtime, readable, files]
    symfiles,   \* symbol tree: library -> Absent or [mtime, readable, content]
    envOps,     \* number of changes made to the disk so far
    lib_path,   \* family -> self.<family>_lib_path, fixed by __init__
    dbExists,   \* os.path.exists(self.db_path)
    tables,     \* the tables of the committed store (sqlite_master)
    data,       \* table name -> committed rows of the family tables
    meta,       \* committed rows of the metadata table: key -> value
    pc,         \* where the running rebuild is; "idle" when none runs
    cur,        \* the family being rebuilt
    todo,       \* the entries of the root listing still to visit
    txn,        \* the writer's open transaction: rows and metadata not committed
    pre,        \* what the store held for the family when the running rebuild was called
    ret,        \* what the last call returned to its caller
    unclosed,   \* a call has ended without closing the connection it opened
    calls,      \* family -> its latest rebuild calls, one after another (at most two)
    fault,      \* what is wrong with the store file: "ok" when nothing is
    query,      \* the query string of a search call
    library,    \* the library argument of a search call
    limit,      \* the limit argument of a search call
    tool        \* the search_footprints tool: where its call is, and its last response

vars == <<clock, envSet, loc, pretty, symfiles, envOps, lib_path, dbExists,
          tables, data, meta, pc, cur, todo, txn, pre, ret, unclosed, calls,
          fault, query, library, limit, tool>>

diskVars == <<clock, envSet, loc, pretty, symfiles, envOps>>
storeVars == <<dbExists, tables, data, meta>>
runVars == <<pc, cur, todo, txn, pre>>
callVars == <<fault, query, library, limit, tool>>
argVars == <<fault, query, library, limit>>

----------------------------------------------------------------------------
(* Bounds of the model *)

MaxEnvOps == 1

\* search_*(..., limit: int = 20)
DefaultLimit == 20

\* the tool is not being called and has not responded yet
ToolIdle == [stage |-> "idle", response |-> "none"]

----------------------------------------------------------------------------
(* Names *)

Families == {"fp", "sym"}
Other(f) == IF f = "fp" THEN "sym" ELSE "fp"

None == "None"
Absent == [absent |-> TRUE]

PrettyLibs == {"L1", "L2"}        \* <name>.pretty directories
ModFiles == {"a", "b"}            \* <stem>.kicad_mod files
Stems == ModFiles \cup {""}       \* "" is the stem of a file named .kicad_mod
SymLibs == {"S1", "S2"}           \* <name>.kicad_sym files
Decls == {"", "x"}                \* the name a footprint file declares ("" = none)

Rank(n) ==
    CASE n = "L1" -> 1 [] n = "L2" -> 2
      [] n = "S1" -> 1 [] n = "S2" -> 2
      [] n = "a" -> 1 [] n = "b" -> 2
      [] n = "" -> 0
      [] OTHER -> 3

\* faulty variant: the entries taken in descending order of name
RECURSIVE SortedDescending(_)
SortedDescending(S) ==
    IF S = {} THEN <<>>
    ELSE LET m == CHOOSE x \in S : \A y \in S : Rank(x) >= Rank(y)
         IN <<m>> \o SortedDescending(S \ {m})

\* sorted(entries, key=lambda e: e.name)
RECURSIVE Sorted(_)
Sorted(S) ==
    IF S = {} THEN <<>>
    ELSE LET m == CHOOSE x \in S : \A y \in S : Rank(x) <= Rank(y)
         IN <<m>> \o Sorted(S \ {m})

----------------------------------------------------------------------------
(* Library files *)

\* A .kicad_sym file is the sequence of the things the parser looks for in
\* its text, in the order of the text: (symbol "<name>" declarations,
\* (property "Description" "<text>" and (property "ki_keywords" "<text>"
\* entries, and (pin entries. A declaration has its nesting depth (1 = directly
\* under the kicad_symbol_lib wrapper, 2 = a sub-unit) and its lead: the text
\* of its line before the opening parenthesis. A name is a sequence of
\* characters.
Digits == {"0", "1"}
Tab == "\t"
Symbol(lead, depth, name) == [kind |-> "symbol", lead |-> lead, depth |-> depth, text |-> name]
Property(key, text) == [kind |-> key, lead |-> <<Tab, Tab>>, depth |-> 2, text |-> text]
Pin == [kind |-> "pin", lead |-> <<Tab, Tab, Tab>>, depth |-> 3, text |-> <<>>]

SymR == Symbol(<<Tab>>, 1, <<"R">>)
SymRUnit == Symbol(<<Tab, Tab>>, 2, <<"R", "_", "1", "_", "1">>)
SymC == Symbol(<<Tab>>, 1, <<"C">>)
SymContents == { <<SymR, SymRUnit>>, <<SymR, SymRUnit, SymC>> }

\* re.search(r"_\d+_\d+$", name)
IsSubUnitName(name) ==
    \E i, j \in 1..Len(name) :
        /\ i + 1 < j /\ j < Len(name)
        /\ name[i] = "_" /\ name[j] = "_"
        /\ \A k \in (i + 1)..(j - 1) : name[k] \in Digits
        /\ \A k \in (j + 1)..Len(name) : name[k] \in Digits

\* re.finditer(r'^\t\(symbol\s+"([^"]+)"', content, re.MULTILINE): a
\* declaration whose line begins with one tab and nothing else
IsTopLevelMatch(item) == item.kind = "symbol" /\ item.lead = <<Tab>>

\* content[start:end]: from the match at i to the next match of
\* r'^\t\(symbol\s+"', or to the end of the text
BlockOf(content, i) ==
    LET later == {j \in (i + 1)..Len(content) : IsTopLevelMatch(content[j])}
        end == IF later = {} THEN Len(content) + 1
               ELSE CHOOSE j \in later : \A k \in later : j <= k
    IN SubSeq(content, i, end - 1)

\* re.search(r'\(property\s+"<key>"\s+"([^"]*)"', block): the first entry of
\* the block, the empty text when it has none
FirstProperty(block, key) ==
    LET at == {k \in 1..Len(block) : block[k].kind = key}
    IN IF at = {} THEN <<>>
       ELSE block[CHOOSE k \in at : \A j \in at : k <= j].text

\* len(re.findall(r"\(pin\s+", block))
PinCount(block) == Cardinality({k \in 1..Len(block) : block[k].kind = "pin"})

\* lib_id = f"{library}:{name}"
SymLibId(lib, name) == <<lib, ":", name>>

\* _parse_kicad_sym on the text of a file of library lib
RECURSIVE ParseSymText(_, _, _)
ParseSymText(lib, content, i) ==
    IF i > Len(content) THEN <<>>
    ELSE (IF IsTopLevelMatch(content[i]) /\ ~IsSubUnitName(content[i].text)
          THEN LET block == BlockOf(content, i)
               IN <<[library |-> lib, name |-> content[i].text,
                     lib_id |-> SymLibId(lib, content[i].text),
                     description |-> FirstProperty(block, "Description"),
                     keywords |-> FirstProperty(block, "ki_keywords"),
                     pin_count |-> PinCount(block)]>>
          ELSE <<>>)
         \o ParseSymText(lib, content, i + 1)

\* _parse_kicad_sym: the rows of one library file, [] when it cannot be read
ParseKicadSym(lib) ==
    IF symfiles[lib] = Absent \/ ~symfiles[lib].readable THEN <<>>
    ELSE ParseSymText(lib, symfiles[lib].content, 1)

\* A .kicad_mod file: the name it declares with (footprint "<name>" ("" when
\* it declares none), whether text (white space, a comment) stands before that
\* declaration, its (descr and (tags texts, the number of its (pad entries,
\* and whether it can be opened for reading.
\* faulty variant: the text is taken whether or not the file can be opened
ParseKicadModNoOpenError(file) ==
    [name |-> IF file.lead THEN "" ELSE file.decl,
     description |-> file.descr, tags |-> file.tags, pad_count |-> file.pads]

\* _parse_kicad_mod: re.match finds the declaration at the very start of the
\* text only; a file that cannot be read gives the initial result
ParseKicadMod(file) ==
    IF ~file.readable
    THEN [name |-> "", description |-> "", tags |-> "", pad_count |-> 0]
    ELSE [name |-> IF file.lead THEN "" ELSE file.decl,
          description |-> file.descr, tags |-> file.tags, pad_count |-> file.pads]

\* the name of the row: the parsed name, or the file name without .kicad_mod
ModName(file, stem) ==
    IF ParseKicadMod(file).name = "" THEN stem ELSE ParseKicadMod(file).name

FilesOf(lib) == {m \in Stems : pretty[lib].files[m] # Absent}

\* the rows rebuild_footprints inserts for one .pretty directory
FootprintRow(lib, stem) ==
    LET parsed == ParseKicadMod(pretty[lib].files[stem])
    IN [library |-> lib, name |-> ModName(pretty[lib].files[stem], stem),
        description |-> parsed.description, tags |-> parsed.tags,
        pad_count |-> parsed.pad_count]

FootprintRows(lib) ==
    LET stems == Sorted(FilesOf(lib))
    IN [i \in 1..Len(stems) |-> FootprintRow(lib, stems[i])]

----------------------------------------------------------------------------
(* Library path discovery *)

IsDir(f, p) == p # None /\ loc[f] = p

\* _get_kicad_share_path on Linux: the first of /usr/share/kicad ("share") and
\* /usr/local/share/kicad ("local") that is a directory. A share directory
\* exists when the tree of either family is installed under it.
SharePaths == <<"share", "local">>
ShareIsDir(p) == \E g \in Families : loc[g] = p

GetKicadSharePath ==
    IF ShareIsDir(SharePaths[1]) THEN SharePaths[1]
    ELSE IF ShareIsDir(SharePaths[2]) THEN SharePaths[2]
    ELSE None

\* _get_footprint_lib_path / _get_symbol_lib_path: the environment override,
\* else the family's sub-directory of the share directory
GetLibPath(f) ==
    IF envSet[f] /\ IsDir(f, "env") THEN "env"
    ELSE LET share == GetKicadSharePath
         IN IF share # None /\ IsDir(f, share) THEN share ELSE None

\* faulty variant: the guard without its os.path.isdir test
PathUsableNoIsDir(f) == lib_path[f] # None

\* the check rebuild_* and *_stale make on the path the object holds
PathUsable(f) == lib_path[f] # None /\ IsDir(f, lib_path[f])

----------------------------------------------------------------------------
(* The store *)

Primary(f) == IF f = "fp" THEN "footprints" ELSE "symbols"
Fts(f) == IF f = "fp" THEN "footprints_fts" ELSE "symbols_fts"
FamilyTables == {"footprints", "footprints_fts", "symbols", "symbols_fts"}

\* faulty variant: one build_time key for both families, as in the footprint-only index
TimeKeyShared(f) == "fp_build_time"

TimeKey(f) == IF f = "fp" THEN "fp_build_time" ELSE "sym_build_time"
PathKey(f) == IF f = "fp" THEN "fp_lib_path" ELSE "sym_lib_path"
CountKey(f) == IF f = "fp" THEN "fp_count" ELSE "sym_count"
KeysOf(f) == {TimeKey(f), PathKey(f), CountKey(f)}

EmptyMeta == [k \in {} |-> 0]
NoTxn == [rows |-> <<>>, fts |-> <<>>, meta |-> EmptyMeta]

\* faulty variant: the library path is never recorded
SetMetaSkipsPath(m, key, value) ==
    IF key \in {"fp_lib_path", "sym_lib_path"} THEN m
    ELSE [k \in DOMAIN m \cup {key} |-> IF k = key THEN value ELSE m[k]]

\* INSERT OR REPLACE INTO metadata (key, value)
SetMeta(m, key, value) == [k \in DOMAIN m \cup {key} |-> IF k = key THEN value ELSE m[k]]

\* what another connection reads from a family table: the committed rows, or
\* "no such table"
ReadTable(t) == IF dbExists /\ t \in tables THEN [ok |-> TRUE, rows |-> data[t]]
                ELSE [ok |-> FALSE, rows |-> <<>>]

ReaderView(f) == [primary |-> ReadTable(Primary(f)), fts |-> ReadTable(Fts(f))]

MetaView(f) == [k \in KeysOf(f) \cap DOMAIN meta |-> meta[k]]

\* the rows a search of the family can return: <fts> JOIN <primary> ON rowid;
\* a missing table makes the query fail, and search then returns []
SearchableRows(f) ==
    LET p == ReadTable(Primary(f))
        x == ReadTable(Fts(f))
    IN IF p.ok /\ x.ok
       THEN SelectSeq(p.rows, LAMBDA r : \E i \in 1..Len(x.rows) : x.rows[i] = r)
       ELSE <<>>

NoPre == [none |-> TRUE]
Snapshot(f) == [rows |-> SearchableRows(f), meta |-> MetaView(f)]

\* the record of one rebuild call: whether it has returned, the count it
\* returned and the rows it left in the primary table. calls[f] holds the
\* calls of rebuild(f) made one after another since the family's library
\* files last changed.
Called == [done |-> FALSE, count |-> 0, rows |-> <<>>]
LastTwo(q) == IF Len(q) > 2 THEN Tail(q) ELSE q
NoCalls == [f \in Families |-> <<>>]

----------------------------------------------------------------------------
(* Staleness *)

\* the entries of the family's root that the staleness scan looks at
UnitsOf(f) == IF f = "fp" THEN {l \in PrettyLibs : pretty[l] # Absent}
              ELSE {s \in SymLibs : symfiles[s] # Absent}

UnitMtime(f, u) == IF f = "fp" THEN pretty[u].mtime ELSE symfiles[u].mtime

\* faulty variant: _is_stale without its scan of the root for newer entries
IsStaleAtNoScan(time_key, path_key, path, f) ==
    IF ~dbExists THEN TRUE
    ELSE IF "metadata" \notin tables THEN TRUE
    ELSE IF time_key \notin DOMAIN meta THEN TRUE
    ELSE IF path_key \notin DOMAIN meta \/ meta[path_key] # path THEN TRUE
    ELSE FALSE

\* LibraryIndex._is_stale
IsStaleAt(time_key, path_key, path, f) ==
    IF ~dbExists THEN TRUE
    ELSE IF "metadata" \notin tables THEN TRUE
    ELSE IF time_key \notin DOMAIN meta THEN TRUE
    ELSE IF path_key \notin DOMAIN meta \/ meta[path_key] # path THEN TRUE
    ELSE \E u \in UnitsOf(f) : UnitMtime(f, u) > meta[time_key]

\* LibraryIndex.footprints_stale / symbols_stale
IsStale(f) ==
    IF ~PathUsable(f) THEN TRUE
    ELSE IsStaleAt(TimeKey(f), PathKey(f), lib_path[f], f)

----------------------------------------------------------------------------
(* Initial state: a process that has just constructed its LibraryIndex over
   installed libraries; the store holds the metadata table and nothing else. *)

ModFile(decl, t) == [decl |-> decl, lead |-> FALSE, descr |-> "", tags |-> "", pads |-> 0,
                     readable |-> TRUE, mtime |-> t]
NoFiles == [m \in Stems |-> Absent]

\* The libraries a site has: KiCad's own tree under one of the two share
\* directories, or a smaller tree of the user's in the directory the
\* environment variable names.
\* A site with no tree ("none") has KiCad's tree elsewhere, not yet installed.
Sites == {"share", "local", "env", "none"}

\* where the two trees are when the process starts: both at the same site, or
\* the footprints under /usr/local/share/kicad and the symbols elsewhere
InitSites ==
    {[f \in Families |-> p] : p \in Sites}
        \cup {[fp |-> "local", sym |-> p] : p \in {"share", "env"}}

Lib(stem, decl) == [mtime |-> 0, readable |-> TRUE,
                    files |-> [NoFiles EXCEPT ![stem] = ModFile(decl, 0)]]
SymLib(content) == [mtime |-> 0, readable |-> TRUE, content |-> content]

InitWith(q) ==
    /\ clock = 0
    /\ loc \in InitSites
    /\ envSet = [f \in Families |-> loc[f] = "env"]
    /\ pretty = [l \in PrettyLibs |->
                    IF l = "L1" THEN Lib("a", "x")
                    ELSE IF loc["fp"] = "env" THEN Absent ELSE Lib("a", "")]
    /\ symfiles = [s \in SymLibs |->
                    IF s = "S1" THEN SymLib(<<SymR, SymRUnit>>)
                    ELSE IF loc["sym"] = "env" THEN Absent ELSE SymLib(<<SymR, SymRUnit, SymC>>)]
    /\ envOps = 0
    /\ lib_path = [f \in Families |-> GetLibPath(f)]
    /\ dbExists = TRUE
    /\ tables = {"metadata"}
    /\ data = [t \in FamilyTables |-> <<>>]
    /\ meta = EmptyMeta
    /\ pc = "idle"
    /\ cur = None
    /\ todo = <<>>
    /\ txn = NoTxn
    /\ pre = NoPre
    /\ ret = [op |-> "init", fam |-> None, err |-> "", count |-> 0, out |-> None]
    /\ unclosed = FALSE
    /\ calls = NoCalls
    /\ fault = "ok"
    /\ query = q
    /\ library = [given |-> FALSE, name |-> <<>>]
    /\ limit = DefaultLimit
    /\ tool = ToolIdle

Init == InitWith(<<>>)

----------------------------------------------------------------------------
(* LibraryIndex.__init__: a process start. Resolves both roots once and
   creates the metadata table if it is missing. A new process holds no
   connection of an earlier one. *)

Construct ==
    /\ pc = "idle"
    /\ lib_path' = [f \in Families |-> GetLibPath(f)]
    /\ dbExists' = TRUE
    /\ tables' = tables \cup {"metadata"}
    /\ unclosed' = FALSE
    /\ UNCHANGED <<callVars, calls, diskVars, data, meta, runVars, ret>>

----------------------------------------------------------------------------
(* rebuild_footprints / rebuild_symbols *)

Raised(f, e) == [op |-> "rebuild", fam |-> f, err |-> e, count |-> 0, out |-> None]
Returned(f, n) == [op |-> "rebuild", fam |-> f, err |-> "", count |-> n, out |-> None]

\* an exception leaves the function between connect and conn.close(): the
\* connection stays open until the interpreter collects it, and its
\* transaction is never committed
Abort(f, e) ==
    /\ pc' = "idle" /\ cur' = None /\ todo' = <<>> /\ txn' = NoTxn /\ pre' = NoPre
    /\ ret' = Raised(f, e)
    /\ unclosed' = TRUE
    /\ calls' = [calls EXCEPT ![f] = <<>>]

\* the guard, then connect and DROP TABLE IF EXISTS <primary>
RebuildBegin(f) ==
    /\ pc = "idle"
    /\ IF ~PathUsable(f)
       THEN /\ ret' = Raised(f, "RuntimeError")
            /\ calls' = [calls EXCEPT ![f] = <<>>]
            /\ UNCHANGED <<storeVars, runVars>>
       ELSE /\ dbExists' = TRUE
            /\ tables' = tables \ {Primary(f)}
            /\ data' = [data EXCEPT ![Primary(f)] = <<>>]
            /\ pc' = "drop_fts" /\ cur' = f
            /\ pre' = Snapshot(f)
            /\ calls' = [calls EXCEPT ![f] = LastTwo(Append(@, Called))]
            /\ UNCHANGED <<meta, todo, txn, ret>>
    /\ UNCHANGED <<callVars, diskVars, lib_path, unclosed>>

\* DROP TABLE IF EXISTS <fts>
RebuildDropFts ==
    /\ pc = "drop_fts"
    /\ tables' = tables \ {Fts(cur)}
    /\ data' = [data EXCEPT ![Fts(cur)] = <<>>]
    /\ pc' = "create"
    /\ UNCHANGED <<callVars, unclosed, calls, diskVars, lib_path, dbExists, meta, cur, todo, txn, pre, ret>>

\* CREATE TABLE <primary>
RebuildCreate ==
    /\ pc = "create"
    /\ tables' = tables \cup {Primary(cur)}
    /\ pc' = "create_fts"
    /\ UNCHANGED <<callVars, unclosed, calls, diskVars, lib_path, dbExists, data, meta, cur, todo, txn, pre, ret>>

\* CREATE VIRTUAL TABLE <fts>, then sorted(os.scandir(root))
RebuildCreateFts ==
    /\ pc = "create_fts"
    /\ tables' = tables \cup {Fts(cur)}
    /\ IF IsDir(cur, lib_path[cur])
       THEN /\ todo' = Sorted(UnitsOf(cur))
            /\ pc' = "scan"
            /\ UNCHANGED <<cur, txn, pre, ret, unclosed, calls>>
       ELSE Abort(cur, "OSError")
    /\ UNCHANGED <<callVars, diskVars, lib_path, dbExists, data, meta>>

\* one entry of the root: its rows are inserted in the open transaction
ScanFails(f, u) ==
    /\ f = "fp"
    /\ \/ ~IsDir(f, lib_path[f])
       \/ pretty[u] = Absent
       \/ ~pretty[u].readable

RowsOfUnit(f, u) ==
    IF f = "fp" THEN FootprintRows(u)
    ELSE IF IsDir(f, lib_path[f]) THEN ParseKicadSym(u) ELSE <<>>

RebuildScan ==
    /\ pc = "scan" /\ todo # <<>>
    /\ IF ScanFails(cur, Head(todo))
       THEN Abort(cur, "OSError")
       ELSE /\ txn' = [txn EXCEPT !.rows = @ \o RowsOfUnit(cur, Head(todo))]
            /\ todo' = Tail(todo)
            /\ UNCHANGED <<pc, cur, pre, ret, unclosed, calls>>
    /\ UNCHANGED <<callVars, diskVars, lib_path, storeVars>>

\* INSERT INTO <fts> SELECT ... FROM <primary>, then the three _set_meta calls
RebuildMeta ==
    /\ pc = "scan" /\ todo = <<>>
    /\ IF "metadata" \in tables
       THEN /\ txn' = [txn EXCEPT
                        !.fts = txn.rows,
                        !.meta = SetMeta(SetMeta(SetMeta(@,
                                    TimeKey(cur), clock),
                                    PathKey(cur), lib_path[cur]),
                                    CountKey(cur), Len(txn.rows))]
            /\ pc' = "commit"
            /\ UNCHANGED <<cur, todo, pre, ret, unclosed, calls>>
       ELSE Abort(cur, "OperationalError")
    /\ UNCHANGED <<callVars, diskVars, lib_path, storeVars>>

\* conn.commit(), conn.close(), return count
RebuildCommit ==
    /\ pc = "commit"
    /\ data' = [data EXCEPT ![Primary(cur)] = txn.rows, ![Fts(cur)] = txn.fts]
    /\ meta' = [k \in DOMAIN meta \cup DOMAIN txn.meta |->
                    IF k \in DOMAIN txn.meta THEN txn.meta[k] ELSE meta[k]]
    /\ ret' = Returned(cur, Len(txn.rows))
    /\ pc' = "idle" /\ cur' = None /\ todo' = <<>> /\ txn' = NoTxn /\ pre' = NoPre
    /\ calls' = [calls EXCEPT ![cur] =
                    IF @ = <<>> THEN @
                    ELSE [@ EXCEPT ![Len(@)] = [done |-> TRUE, count |-> Len(txn.rows),
                                                rows |-> txn.rows]]]
    /\ UNCHANGED <<callVars, diskVars, lib_path, dbExists, tables, unclosed>>

----------------------------------------------------------------------------
(* The environment: other programs change the library trees, the process
   environment and the store file. *)

Budget == envOps < MaxEnvOps /\ envOps' = envOps + 1

\* the library files of family f change
Changed(f) == calls' = [calls EXCEPT ![f] = <<>>]

\* Time is continuous and every write to the disk happens at a moment of its
\* own, later than everything before it: the write is stamped Now and moves
\* the clock there. Reading the clock (time.time()) does not move it; only the
\* order of the stamps matters, because the code compares them with > alone.
Now == clock + 1

\* os.utime(<unit>): a .pretty directory or a .kicad_sym file
TouchUnit(f, u) ==
    /\ Budget
    /\ loc[f] # "none" /\ u \in UnitsOf(f)
    /\ IF f = "fp"
       THEN pretty' = [pretty EXCEPT ![u].mtime = Now] /\ UNCHANGED symfiles
       ELSE symfiles' = [symfiles EXCEPT ![u].mtime = Now] /\ UNCHANGED pretty
    /\ clock' = Now
    /\ Changed(f)
    /\ UNCHANGED <<callVars, unclosed, envSet, loc, lib_path, storeVars, runVars, ret>>

\* a footprint file is created (the directory's mtime changes) or rewritten in
\* place (only the file's mtime changes)
WriteMod(l, m, d) ==
    /\ Budget
    /\ loc["fp"] # "none" /\ pretty[l] # Absent
    /\ IF pretty[l].files[m] = Absent
       THEN pretty' = [pretty EXCEPT ![l].files[m] = ModFile(d, Now), ![l].mtime = Now]
       ELSE /\ pretty[l].files[m].decl # d
            /\ pretty' = [pretty EXCEPT ![l].files[m] = ModFile(d, Now)]
    /\ clock' = Now
    /\ Changed("fp")
    /\ UNCHANGED <<callVars, unclosed, envSet, loc, symfiles, lib_path, storeVars, runVars, ret>>

DeleteMod(l, m) ==
    /\ Budget
    /\ loc["fp"] # "none" /\ pretty[l] # Absent /\ pretty[l].files[m] # Absent
    /\ pretty' = [pretty EXCEPT ![l].files[m] = Absent, ![l].mtime = Now]
    /\ clock' = Now
    /\ Changed("fp")
    /\ UNCHANGED <<callVars, unclosed, envSet, loc, symfiles, lib_path, storeVars, runVars, ret>>

\* mkdir <l>.pretty / rm -r <l>.pretty: only the root's own mtime changes
MakeLib(l) ==
    /\ Budget
    /\ loc["fp"] # "none" /\ pretty[l] = Absent
    /\ pretty' = [pretty EXCEPT ![l] = [mtime |-> Now, readable |-> TRUE, files |-> NoFiles]]
    /\ clock' = Now
    /\ Changed("fp")
    /\ UNCHANGED <<callVars, unclosed, envSet, loc, symfiles, lib_path, storeVars, runVars, ret>>

RemoveLib(l) ==
    /\ Budget
    /\ loc["fp"] # "none" /\ pretty[l] # Absent
    /\ pretty' = [pretty EXCEPT ![l] = Absent]
    /\ Changed("fp")
    /\ UNCHANGED <<callVars, unclosed, clock, envSet, loc, symfiles, lib_path, storeVars, runVars, ret>>

\* chmod: the unit becomes unreadable, or readable again
ChmodUnit(f, u) ==
    /\ Budget
    /\ loc[f] # "none" /\ u \in UnitsOf(f)
    /\ IF f = "fp"
       THEN pretty' = [pretty EXCEPT ![u].readable = ~@] /\ UNCHANGED symfiles
       ELSE symfiles' = [symfiles EXCEPT ![u].readable = ~@] /\ UNCHANGED pretty
    /\ Changed(f)
    /\ UNCHANGED <<callVars, unclosed, clock, envSet, loc, lib_path, storeVars, runVars, ret>>

\* a symbol library file is written (created or replaced) or deleted
WriteSym(s, c) ==
    /\ Budget
    /\ loc["sym"] # "none"
    /\ IF symfiles[s] = Absent THEN TRUE ELSE symfiles[s].content # c
    /\ symfiles' = [symfiles EXCEPT ![s] = [mtime |-> Now, readable |-> TRUE, content |-> c]]
    /\ clock' = Now
    /\ Changed("sym")
    /\ UNCHANGED <<callVars, unclosed, envSet, loc, pretty, lib_path, storeVars, runVars, ret>>

DeleteSym(s) ==
    /\ Budget
    /\ loc["sym"] # "none" /\ symfiles[s] # Absent
    /\ symfiles' = [symfiles EXCEPT ![s] = Absent]
    /\ Changed("sym")
    /\ UNCHANGED <<callVars, unclosed, clock, envSet, loc, pretty, lib_path, storeVars, runVars, ret>>

\* the library tree is moved, removed ("none") or installed
MoveTree(f, p) ==
    /\ Budget
    /\ p # loc[f]
    /\ loc' = [loc EXCEPT ![f] = p]
    /\ Changed(f)
    /\ UNCHANGED <<callVars, unclosed, clock, envSet, pretty, symfiles, lib_path, storeVars, runVars, ret>>

\* KICAD_FOOTPRINT_DIR / KICAD_SYMBOL_DIR is set or unset
SetEnv(f) ==
    /\ Budget
    /\ envSet' = [envSet EXCEPT ![f] = ~@]
    /\ UNCHANGED <<callVars, unclosed, calls, clock, loc, pretty, symfiles, lib_path, storeVars, runVars, ret>>

\* the cache file is deleted between two calls
DeleteDb ==
    /\ Budget
    /\ pc = "idle" /\ dbExists
    /\ dbExists' = FALSE
    /\ tables' = {}
    /\ data' = [t \in FamilyTables |-> <<>>]
    /\ meta' = EmptyMeta
    /\ UNCHANGED <<callVars, unclosed, calls, clock, envSet, loc, pretty, symfiles, lib_path, runVars, ret>>

----------------------------------------------------------------------------

Rebuild ==
    \/ \E f \in Families : RebuildBegin(f)
    \/ RebuildDropFts
    \/ RebuildCreate
    \/ RebuildCreateFts
    \/ RebuildScan
    \/ RebuildMeta
    \/ RebuildCommit

Disk ==
    \/ \E f \in Families, u \in PrettyLibs \cup SymLibs : TouchUnit(f, u)
    \/ \E l \in PrettyLibs, m \in ModFiles, d \in Decls : WriteMod(l, m, d)
    \/ \E l \in PrettyLibs, m \in ModFiles : DeleteMod(l, m)
    \/ \E l \in PrettyLibs : MakeLib(l)
    \/ \E l \in PrettyLibs : RemoveLib(l)
    \/ \E f \in Families, u \in PrettyLibs \cup SymLibs : ChmodUnit(f, u)
    \/ \E s \in SymLibs, c \in SymContents : WriteSym(s, c)
    \/ \E s \in SymLibs : DeleteSym(s)
    \/ \E f \in Families, p \in Sites : MoveTree(f, p)
    \/ \E f \in Families : SetEnv(f)
    \/ DeleteDb

Next == Construct \/ Rebuild \/ Disk

Spec == Init /\ [][Next]_vars

----------------------------------------------------------------------------
(* Properties *)

Running(f) == pc # "idle" /\ cur = f

\* a step of rebuild(f)
RebuildStep(f) ==
    \/ RebuildBegin(f)
    \/ /\ cur = f
       /\ \/ RebuildDropFts \/ RebuildCreate \/ RebuildCreateFts
          \/ RebuildScan \/ RebuildMeta \/ RebuildCommit

\* rebuild(f) returns a count in this step / raises in this step
Returns(f) == pc = "commit" /\ cur = f /\ pc' = "idle"
Raises(f) == RebuildStep(f) /\ pc' = "idle" /\ ret'.op = "rebuild" /\ ret'.err # ""

Built(f) == KeysOf(f) \subseteq DOMAIN meta
BuildTime(f) == meta[TimeKey(f)]

\* C1: while rebuild(f) runs, a reader on another connection finds the rows
\* the family had when the rebuild was called; it never finds the tables
\* missing, empty or partly filled (the rebuilt rows appear when it returns).
C1_ReadersSeePreRebuildRows ==
    \A f \in Families : Running(f) => SearchableRows(f) = pre.rows

\* C2: a rebuild that was called with a usable root and then raises leaves the
\* rows a search of the family finds and the family's metadata keys as they
\* were when it was called.
C2_FailedRebuildChangesNothing ==
    [][\A f \in Families :
            (Raises(f) /\ pre # NoPre) => Snapshot(f)' = pre]_vars

NewerUnit(f) ==
    /\ TimeKey(f) \in DOMAIN meta
    /\ \E u \in UnitsOf(f) : UnitMtime(f, u) > BuildTime(f)

ModifiedAfterBuild(f) ==
    IF f = "fp"
    THEN \E l \in UnitsOf("fp") :
            \/ pretty[l].mtime > BuildTime("fp")
            \/ \E m \in FilesOf(l) : pretty[l].files[m].mtime > BuildTime("fp")
    ELSE \E u \in UnitsOf("sym") : symfiles[u].mtime > BuildTime("sym")

\* C4: is_stale(f) is false exactly when the store file exists, the root path
\* the last build recorded is the root as resolved now, and no .pretty
\* directory, .kicad_mod file or .kicad_sym file of the family has been
\* modified after the recorded build timestamp. (Stated for the states in
\* which the root resolves now to what the object holds, where "the currently
\* resolved root" is not in question: the claim covers more, and fails
\* already here.)
C4_StaleIffInvalid ==
    \A f \in Families :
        GetLibPath(f) = lib_path[f] =>
            (~IsStale(f) <=>
                /\ dbExists
                /\ Built(f)
                /\ meta[PathKey(f)] = GetLibPath(f)
                /\ ~ModifiedAfterBuild(f))

\* the identifiers a parse of the units now on disk produces
RECURSIVE RowsOfAll(_, _)
RowsOfAll(f, units) ==
    IF units = <<>> THEN <<>>
    ELSE RowsOfUnit(f, Head(units)) \o RowsOfAll(f, Tail(units))

Range(q) == {q[i] : i \in 1..Len(q)}
DiskIds(f) == Range(RowsOfAll(f, Sorted(UnitsOf(f))))
IndexIds(f) == Range(ReadTable(Primary(f)).rows)

AllReadable ==
    /\ \A l \in UnitsOf("fp") : pretty[l].readable
    /\ \A u \in UnitsOf("sym") : symfiles[u].readable

\* C5: between calls, whenever is_stale(f) is false the identifiers in the
\* family's index are those that parsing the units now on disk produces.
\* (Stated for readable units and with no rebuild running: the claim covers
\* more, and fails already here.)
C5_NotStaleMeansCurrent ==
    \A f \in Families :
        (pc = "idle" /\ AllReadable /\ ~IsStale(f)) => IndexIds(f) = DiskIds(f)

\* C6: once both families have been built, touching a unit of family f (its
\* new modification time is later than f's build timestamp) makes is_stale(f)
\* true and leaves is_stale of the other family as it was.
C6_TouchMarksOwnFamilyOnly ==
    [][\A f \in Families, u \in PrettyLibs \cup SymLibs :
            (Built("fp") /\ Built("sym") /\ TouchUnit(f, u) /\ Now > BuildTime(f))
                => /\ IsStale(f)'
                   /\ IsStale(Other(f))' = IsStale(Other(f))]_vars

C6_Witness ==
    \E f \in Families :
        /\ Built("fp") /\ Built("sym")
        /\ pc = "idle" /\ NewerUnit(f)
        /\ IsStale(f) /\ ~IsStale(Other(f))

\* C7: no step of rebuild(f) changes what the store holds for the other
\* family: its primary table, its search table and its metadata keys.
C7_RebuildLeavesOtherFamily ==
    [][\A f \in Families :
            RebuildStep(f) =>
                /\ ReaderView(Other(f))' = ReaderView(Other(f))
                /\ MetaView(Other(f))' = MetaView(Other(f))]_vars

C7_Witness ==
    \E f \in Families :
        /\ pc = "idle" /\ ret = Returned(f, Len(data[Primary(f)])) /\ ret.count > 0
        /\ Built(Other(f)) /\ data[Primary(Other(f))] # <<>>
        /\ BuildTime(f) > BuildTime(Other(f))

\* the root the object holds is no path, or no existing directory
Unresolved(f) == lib_path[f] = None \/ loc[f] # lib_path[f]

\* C8: called with an unresolved root, rebuild(f) raises the path error in
\* that call, returns no count, and leaves the store as it was.
C8_UnresolvedRootRaises ==
    [][\A f \in Families :
            (Unresolved(f) /\ RebuildBegin(f)) =>
                /\ ret' = Raised(f, "RuntimeError")
                /\ pc' = "idle"
                /\ UNCHANGED storeVars]_vars

C8_Witness ==
    \E f \in Families :
        /\ Unresolved(f) /\ ret = Raised(f, "RuntimeError")
        /\ Built(f) /\ data[Primary(f)] # <<>>

\* C9: rebuild(f) raises only for an unresolved root: while the root it was
\* called with is an existing directory, no step of it raises.
C9_OnlyUnresolvedRootRaises ==
    [][\A f \in Families : (Raises(f) /\ IsDir(f, lib_path[f])) => FALSE]_vars

\* is_stale(f) as it would answer for root p
StaleFor(f, p) ==
    IF p = None THEN TRUE ELSE IsStaleAt(TimeKey(f), PathKey(f), p, f)

\* C10: is_stale(f) and rebuild(f) go by the root as resolved when they are
\* called: is_stale answers as for that root, and rebuild raises the path
\* error exactly when that resolution finds no directory.
C10_RootResolvedAtCall ==
    [][\A f \in Families :
            /\ IsStale(f) = StaleFor(f, GetLibPath(f))
            /\ RebuildBegin(f) => (pc' = "idle" <=> GetLibPath(f) = None)]_vars

----------------------------------------------------------------------------
(* Resolution order, idempotence, the table pair, the item count, and the
   connections left open *)

\* the first existing directory of: the environment override, the family's
\* sub-directory under /usr/share/kicad, the one under /usr/local/share/kicad
FirstExisting(f) ==
    IF envSet[f] /\ IsDir(f, "env") THEN "env"
    ELSE IF IsDir(f, SharePaths[1]) THEN SharePaths[1]
    ELSE IF IsDir(f, SharePaths[2]) THEN SharePaths[2]
    ELSE None

\* C11: the resolver returns the environment override when it is set and is a
\* directory, otherwise the first of the family's default directories that
\* exists, and no path only when none of them exists.
C11_ResolverFirstExisting ==
    \A f \in Families : GetLibPath(f) = FirstExisting(f)

\* the rows follow the name order of their libraries
RowsInNameOrder(rows) ==
    \A i, j \in 1..Len(rows) : i < j => Rank(rows[i].library) <= Rank(rows[j].library)

C13_TablesAlwaysPaired ==
    \A f \in Families : ReadTable(Fts(f)) = ReadTable(Primary(f))

\* C14 (its last sentence): in every committed state of the store in which
\* the family's item-count key is present, the family's primary table exists
\* and holds that many rows.
C14_CountKeyMatchesRows ==
    \A f \in Families :
        (dbExists /\ CountKey(f) \in DOMAIN meta) =>
            /\ ReadTable(Primary(f)).ok
            /\ Len(ReadTable(Primary(f)).rows) = meta[CountKey(f)]

\* C17: no call ends with the connection it opened still open.
C17_NoConnectionLeftOpen == ~unclosed

----------------------------------------------------------------------------
(* Text. A string is a sequence of characters. *)

Space == " "
Quote == "\""
Star == "*"
Nul == "NUL"                          \* the character U+0000
QueryChars == {"a", "b", Space, Quote}

MaxQueryLen == 5
Strings(n) == UNION {[1..k -> QueryChars] : k \in 0..n}

\* faulty variant: only the empty string is blank
IsBlankEmptyOnly(s) == s = <<>>

\* not query or not query.strip()
IsBlank(s) == \A i \in 1..Len(s) : s[i] = Space

\* the first position of character c in s, Len(s) + 1 when there is none
IndexOf(s, c) ==
    IF \E i \in 1..Len(s) : s[i] = c
    THEN CHOOSE i \in 1..Len(s) : s[i] = c /\ \A j \in 1..(i - 1) : s[j] # c
    ELSE Len(s) + 1

\* query.strip().split(): the maximal runs of characters that are not whitespace
RECURSIVE Split(_)
Split(s) ==
    IF s = <<>> THEN <<>>
    ELSE IF Head(s) = Space THEN Split(Tail(s))
    ELSE LET n == IndexOf(s, Space)
         IN <<SubSeq(s, 1, n - 1)>> \o Split(SubSeq(s, n, Len(s)))

\* term.replace('"', '""')
RECURSIVE Escape(_)
Escape(t) ==
    IF t = <<>> THEN <<>>
    ELSE (IF Head(t) = Quote THEN <<Quote, Quote>> ELSE <<Head(t)>>) \o Escape(Tail(t))

\* f'"{safe}"*' for the term that gets the prefix match, f'"{safe}"' for the others
FtsTerm(t, prefix) ==
    <<Quote>> \o Escape(t) \o <<Quote>> \o (IF prefix THEN <<Star>> ELSE <<>>)

\* " ".join(fts_terms)
RECURSIVE Join(_)
Join(ts) ==
    IF ts = <<>> THEN <<>>
    ELSE IF Len(ts) = 1 THEN ts[1]
    ELSE ts[1] \o <<Space>> \o Join(Tail(ts))

\* faulty variant: prefix matching on every term
BuildFtsQueryAllPrefix(q) ==
    LET terms == Split(q)
    IN Join([i \in 1..Len(terms) |-> FtsTerm(terms[i], TRUE)])

\* faulty variant: prefix matching on the first term
BuildFtsQueryPrefixFirst(q) ==
    LET terms == Split(q)
    IN Join([i \in 1..Len(terms) |-> FtsTerm(terms[i], i = 1)])

\* LibraryIndex._build_fts_query
BuildFtsQuery(q) ==
    LET terms == Split(q)
    IN Join([i \in 1..Len(terms) |-> FtsTerm(terms[i], i = Len(terms))])

----------------------------------------------------------------------------
(* The FTS5 engine: how SQLite reads the MATCH expression and matches it.
   (Of the expression syntax, what _build_fts_query can produce: quoted
   strings, each with an optional * after it, separated by spaces.) *)

\* the expression reaches FTS5 as a C string, which ends at the first U+0000
CString(s) == SubSeq(s, 1, IndexOf(s, Nul) - 1)

\* the rest of a quoted string after its opening quote: "" stands for one
\* quote, a single quote closes it, the end of the text before that is the
\* error "unterminated string"
RECURSIVE ReadString(_)
ReadString(s) ==
    IF s = <<>> THEN [ok |-> FALSE, text |-> <<>>, rest |-> <<>>]
    ELSE IF Head(s) = Quote
    THEN IF Len(s) >= 2 /\ s[2] = Quote
         THEN LET r == ReadString(Tail(Tail(s)))
              IN [ok |-> r.ok, text |-> <<Quote>> \o r.text, rest |-> r.rest]
         ELSE [ok |-> TRUE, text |-> <<>>, rest |-> Tail(s)]
    ELSE LET r == ReadString(Tail(s))
         IN [ok |-> r.ok, text |-> <<Head(s)>> \o r.text, rest |-> r.rest]

\* the phrases of an expression, each with its prefix flag; ok is FALSE for a
\* syntax error
RECURSIVE ParseFts(_)
ParseFts(s) ==
    IF s = <<>> THEN [ok |-> TRUE, phrases |-> <<>>]
    ELSE IF Head(s) = Space THEN ParseFts(Tail(s))
    ELSE IF Head(s) = Quote
    THEN LET str == ReadString(Tail(s))
             starred == str.rest # <<>> /\ Head(str.rest) = Star
             more == ParseFts(IF starred THEN Tail(str.rest) ELSE str.rest)
         IN IF ~str.ok THEN [ok |-> FALSE, phrases |-> <<>>]
            ELSE [ok |-> more.ok,
                  phrases |-> <<[text |-> str.text, prefix |-> starred]>> \o more.phrases]
    ELSE [ok |-> FALSE, phrases |-> <<>>]

\* the unicode61 tokenizer: tokens are the maximal runs of letters and digits,
\* folded to lower case; every other character separates tokens
Fold(c) == CASE c = "A" -> "a" [] c = "B" -> "b" [] OTHER -> c
IsTokenChar(c) == c \in {"a", "b", "A", "B"} \cup Digits

RECURSIVE Tokenize(_)
Tokenize(s) ==
    IF s = <<>> THEN <<>>
    ELSE IF ~IsTokenChar(Head(s)) THEN Tokenize(Tail(s))
    ELSE LET n == IF \E i \in 1..Len(s) : ~IsTokenChar(s[i])
                  THEN CHOOSE i \in 1..Len(s) :
                          ~IsTokenChar(s[i]) /\ \A j \in 1..(i - 1) : IsTokenChar(s[j])
                  ELSE Len(s) + 1
         IN <<[i \in 1..(n - 1) |-> Fold(s[i])]>> \o Tokenize(SubSeq(s, n, Len(s)))

IsPrefix(p, t) == Len(p) <= Len(t) /\ SubSeq(t, 1, Len(p)) = p

\* the tokens of phrase p stand one after another in column col from position
\* i on; with the prefix flag the last of them need only begin the token there
PhraseAt(p, prefix, col, i) ==
    /\ i + Len(p) - 1 <= Len(col)
    /\ \A j \in 1..Len(p) :
          IF j = Len(p) /\ prefix THEN IsPrefix(p[j], col[i + j - 1])
          ELSE col[i + j - 1] = p[j]

PhraseMatches(ph, cols) ==
    \E c \in 1..Len(cols) : \E i \in 1..Len(cols[c]) :
        PhraseAt(Tokenize(ph.text), ph.prefix, cols[c], i)

\* the phrases are ANDed; a phrase without tokens is dropped, and an
\* expression left without phrases matches nothing
FtsMatch(phrases, cols) ==
    LET real == SelectSeq(phrases, LAMBDA ph : Tokenize(ph.text) # <<>>)
    IN /\ real # <<>>
       /\ \A k \in 1..Len(real) : PhraseMatches(real[k], cols)

----------------------------------------------------------------------------
(* search_footprints / search_symbols and footprints_stale / symbols_stale as
   calls, made on a store that a rebuild has filled or that something has
   damaged. *)

\* the library argument: None, or a string
NoLibrary == [given |-> FALSE, name |-> <<>>]
Given(n) == [given |-> TRUE, name |-> n]
LibraryArgs == {NoLibrary, Given(<<>>), Given(<<"A">>), Given(<<"B">>), Given(<<"b">>)}

\* the rows a rebuild leaves for the footprint libraries A and B and for the
\* symbol library B
LibId(l, n) == l \o <<":">> \o n
FootprintA == [library |-> <<"A">>, name |-> <<"a", "b">>,
               description |-> <<"B", "a", "-", "a">>, tags |-> <<>>]
FootprintB == [library |-> <<"B">>, name |-> <<"a", "-", "b">>,
               description |-> <<"b">>, tags |-> <<"a", "b", " ", "a">>]
SymbolB == [library |-> <<"B">>, name |-> <<"a">>, lib_id |-> LibId(<<"B">>, <<"a">>),
            description |-> <<"a", "b">>, keywords |-> <<"b", "a">>]
SymbolBb == [library |-> <<"B">>, name |-> <<"b">>, lib_id |-> LibId(<<"B">>, <<"b">>),
             description |-> <<"b", "-", "a">>, keywords |-> <<>>]
IndexedRows(f) == IF f = "fp" THEN <<FootprintA, FootprintB>> ELSE <<SymbolB, SymbolBb>>

\* the columns of the search table, as the tokenizer indexed them
Columns(f, r) ==
    IF f = "fp" THEN <<r.library, r.name, r.description, r.tags>>
    ELSE <<r.library, r.name, r.lib_id, r.description, r.keywords>>
IndexedTokens(f, r) == [c \in 1..Len(Columns(f, r)) |-> Tokenize(Columns(f, r)[c])]

\* "if library:" is false for None and for the empty string
Truthy(lib) == lib.given /\ lib.name # <<>>

\* the rows the SELECT finds for query q and library argument lib: none when
\* the statement fails (a table is missing, the expression has a syntax error)
Matching(f, q, lib) ==
    LET e == ParseFts(CString(BuildFtsQuery(q)))
    IN IF ~e.ok THEN <<>>
       ELSE SelectSeq(SearchableRows(f),
                LAMBDA r : /\ FtsMatch(e.phrases, IndexedTokens(f, r))
                           /\ Truthy(lib) => r.library = lib.name)

\* ORDER BY rank: the rows in one of their orders
Orders(rows) ==
    {[i \in 1..Len(rows) |-> rows[p[i]]] : p \in Permutations(1..Len(rows))}

\* the limit argument: an integer
Limits == {-1, 0, 1, DefaultLimit}

\* faulty variant: one row more than the limit
LimitOneMore(rows, n) ==
    IF n < 0 \/ n + 1 >= Len(rows) THEN rows ELSE SubSeq(rows, 1, n + 1)

\* LIMIT n: a negative n is no limit
Limit(rows, n) ==
    IF n < 0 \/ n >= Len(rows) THEN rows ELSE SubSeq(rows, 1, n)

SearchReturned(f, rows) ==
    [op |-> "search", fam |-> f, err |-> "", count |-> Len(rows), out |-> rows]
SearchRaised(f, e) ==
    [op |-> "search", fam |-> f, err |-> e, count |-> 0, out |-> <<>>]

\* what can be wrong with the store file, or with the build timestamps
\* recorded in it
Faults == {"ok", "locked", "corrupt", "unopenable", "time_text", "time_nan", "time_null"}

SearchCall(f) ==
    /\ pc = "idle"
    /\ IF IsBlank(query)
       THEN ret' = SearchReturned(f, <<>>) /\ UNCHANGED <<dbExists, unclosed>>
       ELSE IF fault = "unopenable"
       THEN \* self._connect() raises, outside the try
            ret' = SearchRaised(f, "OperationalError") /\ UNCHANGED <<dbExists, unclosed>>
       ELSE IF fault = "corrupt"
       THEN \* sqlite3.DatabaseError is not an OperationalError
            ret' = SearchRaised(f, "DatabaseError") /\ unclosed' = TRUE /\ UNCHANGED dbExists
       ELSE IF fault = "locked"
       THEN ret' = SearchReturned(f, <<>>) /\ UNCHANGED <<dbExists, unclosed>>
       ELSE /\ \E rows \in Orders(Matching(f, query, library)) :
                    ret' = SearchReturned(f, Limit(rows, limit))
            /\ dbExists' = TRUE
            /\ UNCHANGED unclosed
    /\ UNCHANGED <<callVars, diskVars, lib_path, tables, data, meta, runVars, calls>>

StaleAnswer(v, open) == [err |-> "", out |-> v, open |-> open]

\* footprints_stale / symbols_stale with everything _is_stale can meet in the
\* store; open says that the call ends without closing its connection
StaleOutcome(f) ==
    IF ~PathUsable(f) \/ ~dbExists THEN StaleAnswer(TRUE, FALSE)
    ELSE IF fault = "unopenable" THEN StaleAnswer(TRUE, FALSE)
    ELSE IF fault \in {"locked", "corrupt"} THEN StaleAnswer(TRUE, TRUE)
    ELSE IF "metadata" \notin tables \/ TimeKey(f) \notin DOMAIN meta
    THEN StaleAnswer(TRUE, FALSE)
    ELSE IF fault = "time_null"
    THEN \* float(None)
         [err |-> "TypeError", out |-> FALSE, open |-> TRUE]
    ELSE IF fault = "time_text"
    THEN \* float("abc") raises ValueError, which is caught
         StaleAnswer(TRUE, TRUE)
    ELSE IF fault = "time_nan"
    THEN \* float("nan"): no modification time is greater
         StaleAnswer(PathKey(f) \notin DOMAIN meta \/ meta[PathKey(f)] # lib_path[f], FALSE)
    ELSE StaleAnswer(IsStale(f), FALSE)

StaleCall(f) ==
    /\ pc = "idle"
    /\ LET o == StaleOutcome(f)
       IN /\ ret' = [op |-> "is_stale", fam |-> f, err |-> o.err, count |-> 0, out |-> o.out]
          /\ unclosed' = (unclosed \/ o.open)
    /\ UNCHANGED <<callVars, diskVars, lib_path, storeVars, runVars, calls>>

\* The stores the calls are made on. A built store holds the rows of both
\* families and the metadata of builds of the share tree at time t.
BuiltMeta(t, path) ==
    [k \in KeysOf("fp") \cup KeysOf("sym") |->
        IF k \in {TimeKey("fp"), TimeKey("sym")} THEN t
        ELSE IF k \in {PathKey("fp"), PathKey("sym")} THEN path
        ELSE 2]
BuiltData ==
    [t \in FamilyTables |-> IF t \in {"footprints", "footprints_fts"}
                            THEN IndexedRows("fp") ELSE IndexedRows("sym")]
NoData == [t \in FamilyTables |-> <<>>]
Store(e, ts, d, m) == [dbExists |-> e, tables |-> ts, data |-> d, meta |-> m]

BuiltStore == Store(TRUE, FamilyTables \cup {"metadata"}, BuiltData, BuiltMeta(1, "share"))
DamagedStores ==
    { \* no file; a file with no table, as a search leaves it after the file
      \* was deleted; the file as __init__ leaves it
      Store(FALSE, {}, NoData, EmptyMeta),
      Store(TRUE, {}, NoData, EmptyMeta),
      Store(TRUE, {"metadata"}, NoData, EmptyMeta),
      \* built before the newest library changed; built from another root
      Store(TRUE, FamilyTables \cup {"metadata"}, BuiltData, BuiltMeta(0, "share")),
      Store(TRUE, FamilyTables \cup {"metadata"}, BuiltData, BuiltMeta(1, "env")),
      \* a rebuild of the footprints is between its two DROP TABLE statements
      Store(TRUE, (FamilyTables \ {"footprints"}) \cup {"metadata"},
            [BuiltData EXCEPT !["footprints"] = <<>>], BuiltMeta(1, "share")),
      \* the metadata table was dropped
      Store(TRUE, FamilyTables, BuiltData, EmptyMeta) }

ProbeQueries == {<<>>, <<Space>>, <<"a">>, <<"a", Nul>>}

CallInit ==
    /\ clock = 1 /\ envOps = 0
    /\ loc = [f \in Families |-> "share"]
    /\ envSet = [f \in Families |-> FALSE]
    /\ pretty = [l \in PrettyLibs |->
                    IF l = "L1" THEN Lib("a", "x") ELSE [Lib("a", "") EXCEPT !.mtime = 1]]
    /\ symfiles = [s \in SymLibs |-> SymLib(<<SymR, SymRUnit>>)]
    /\ pc = "idle" /\ cur = None /\ todo = <<>> /\ txn = NoTxn /\ pre = NoPre
    /\ ret = [op |-> "init", fam |-> None, err |-> "", count |-> 0, out |-> None]
    /\ unclosed = FALSE
    /\ calls = NoCalls
    /\ tool = ToolIdle
    /\ \/ /\ lib_path = [f \in Families |-> GetLibPath(f)]
          /\ fault = "ok"
          /\ dbExists = BuiltStore.dbExists /\ tables = BuiltStore.tables
          /\ data = BuiltStore.data /\ meta = BuiltStore.meta
          /\ query \in Strings(MaxQueryLen)
          /\ \/ library \in LibraryArgs /\ limit = DefaultLimit
             \/ library = NoLibrary /\ limit \in {0, 1}
       \/ /\ lib_path \in {[f \in Families |-> GetLibPath(f)],
                           [f \in Families |-> IF f = "fp" THEN None ELSE GetLibPath(f)]}
          /\ \E st \in DamagedStores \cup {BuiltStore} :
                /\ dbExists = st.dbExists /\ tables = st.tables
                /\ data = st.data /\ meta = st.meta
                /\ fault \in IF st.dbExists THEN Faults ELSE {"ok"}
          /\ query \in ProbeQueries
          /\ library = NoLibrary
          /\ limit \in Limits

CallNext ==
    \/ \E f \in Families : SearchCall(f)
    \/ \E f \in Families : StaleCall(f)

CallSpec == CallInit /\ [][CallNext]_vars

----------------------------------------------------------------------------
(* Properties of the calls *)

\* the store cannot be read, or does not hold what is_stale(f) needs
Unusable(f) ==
    \/ ~dbExists
    \/ fault # "ok"
    \/ "metadata" \notin tables
    \/ TimeKey(f) \notin DOMAIN meta
    \/ PathKey(f) \notin DOMAIN meta

\* C15: is_stale(f) never raises, and answers true whenever the store cannot
\* be read or holds unusable data: no metadata table, no keys of the family,
\* a build timestamp that is not a number, a locked or unreadable file.
C15_StaleNeverRaises ==
    ret.op = "is_stale" =>
        /\ ret.err = ""
        /\ Unusable(ret.fam) => ret.out = TRUE

\* C16: search never raises, whatever the query and the state of the store.
C16_SearchNeverRaises ==
    ret.op = "search" => ret.err = ""

\* C18: a search called with a library argument returns only records of that
\* library (and so none when no record has it).
C18_LibraryFilter ==
    (ret.op = "search" /\ library.given) =>
        \A i \in 1..Len(ret.out) : ret.out[i].library = library.name

\* the tokens indexed for a record, of all its columns
TokensOf(f, r) ==
    UNION {Range(IndexedTokens(f, r)[c]) : c \in 1..Len(IndexedTokens(f, r))}

StrictPrefixOnly(t, toks) ==
    /\ t \notin toks
    /\ \E k \in toks : IsPrefix(t, k)

\* a search whose statement ran: the query is not blank and the store was read
Searched(f) ==
    /\ ret.op = "search" /\ ret.fam = f /\ ret.err = ""
    /\ ~IsBlank(query)
    /\ fault \notin {"locked", "corrupt", "unopenable"}
    /\ Limit(SearchableRows(f), limit) = SearchableRows(f)

Terms == Split(query)
NonFinal == 1..(Len(Terms) - 1)
FinalTerm == Terms[Len(Terms)]
LettersOnly(t) == \A i \in 1..Len(t) : IsTokenChar(t[i])

\* the claim's condition for record r to match the query
ExactThenPrefix(f, r) ==
    /\ \A i \in NonFinal : Terms[i] \in TokensOf(f, r)
    /\ \E k \in TokensOf(f, r) : IsPrefix(FinalTerm, k)

PassesFilter(r) == Truthy(library) => r.library = library.name

\* C19: a record is returned when every term but the last equals one of its
\* indexed tokens and the last term begins one of them; it is not returned
\* when a term that is not the last only begins tokens of the record without
\* being one of them; and for terms made of letters alone it is returned in
\* no other case.
C19_PrefixOnLastTermOnly ==
    \A f \in Families :
        Searched(f) =>
            \A r \in Range(SearchableRows(f)) :
                /\ (ExactThenPrefix(f, r) /\ PassesFilter(r)) => r \in Range(ret.out)
                /\ (\E i \in NonFinal : StrictPrefixOnly(Terms[i], TokensOf(f, r)))
                        => r \notin Range(ret.out)
                /\ ((\A i \in 1..Len(Terms) : LettersOnly(Terms[i])) /\ r \in Range(ret.out))
                        => ExactThenPrefix(f, r)

C19_Witness ==
    \E f \in Families :
        /\ Searched(f) /\ Len(Terms) >= 2
        /\ \E r \in Range(ret.out) :
                \E k \in TokensOf(f, r) : IsPrefix(FinalTerm, k) /\ k # FinalTerm
        /\ \E r \in Range(SearchableRows(f)) \ Range(ret.out) :
                /\ \E i \in NonFinal : StrictPrefixOnly(Terms[i], TokensOf(f, r))
                /\ \E k \in TokensOf(f, r) : IsPrefix(FinalTerm, k)

\* the query made of the terms ts in the order p
Reordered(ts, p) == Join([i \in 1..Len(ts) |-> ts[p[i]]])

\* C20 as written: every reordering of the terms of the query finds the
\* records the query finds.
C20_AnyTermOrder ==
    \A f \in Families :
        Searched(f) =>
            \A p \in Permutations(1..Len(Terms)) :
                Range(Matching(f, Reordered(Terms, p), library)) = Range(ret.out)

\* C20 amended: every reordering of the terms that leaves the last term last
\* finds the records the query finds.
C20_TermOrderBeforeLast ==
    \A f \in Families :
        Searched(f) =>
            \A p \in Permutations(1..Len(Terms)) :
                p[Len(Terms)] = Len(Terms) =>
                    Range(Matching(f, Reordered(Terms, p), library)) = Range(ret.out)

C20_Witness ==
    \E f \in Families :
        /\ Searched(f) /\ Len(Terms) = 3
        /\ Terms[1] # Terms[2]
        /\ ret.out # <<>>
        /\ \E r \in Range(SearchableRows(f)) : r \notin Range(ret.out)

----------------------------------------------------------------------------
(* The blank query and the limit *)

\* the string is empty or holds whitespace alone
OnlyWhitespace(s) == \A i \in 1..Len(s) : s[i] \in {Space}

\* C21: a search with an empty or whitespace-only query returns the empty
\* list and leaves the store alone: the file is not created, nothing in it
\* changes, and no connection is left behind.
C21_BlankQueryNoRoundTrip ==
    [][\A f \in Families :
            (OnlyWhitespace(query) /\ SearchCall(f)) =>
                /\ ret' = SearchReturned(f, <<>>)
                /\ UNCHANGED <<storeVars, unclosed>>]_vars

C21_Witness ==
    /\ ret.op = "search" /\ ret.out = <<>> /\ ret.err = ""
    /\ query # <<>> /\ OnlyWhitespace(query)
    /\ \/ ~dbExists
       \/ fault \in {"corrupt", "unopenable"}

\* C22: a search called with a limit of N >= 0 returns at most N records.
C22_AtMostLimit ==
    (ret.op = "search" /\ limit >= 0) => Len(ret.out) <= limit

C22_Witness ==
    /\ ret.op = "search" /\ ret.err = ""
    /\ limit = 1 /\ Len(ret.out) = 1
    /\ Len(Matching(ret.fam, query, library)) = 2

----------------------------------------------------------------------------
(* Rebuilds over library trees of every content: a process that has just
   constructed its LibraryIndex, at a site where one family's libraries are
   installed, and rebuilds. The files do not change. *)

MaxItems == 4

\* a top-level declaration as KiCad 6 and 7 write it, indented with two spaces
SymCSpaces == Symbol(<<" ", " ">>, 1, <<"C">>)
Description == Property("Description", <<"d">>)
Keywords == Property("ki_keywords", <<"k">>)

TopLevelItems == {SymR, SymC, SymCSpaces}
SymItems == TopLevelItems \cup {SymRUnit, Description, Keywords, Pin}

\* the texts of a symbol library file: nothing, or a top-level declaration and
\* what follows it
SymTexts ==
    {<<>>} \cup
    UNION {{<<t>> \o rest : t \in TopLevelItems, rest \in [1..k -> SymItems]} :
                k \in 0..(MaxItems - 1)}

\* the .kicad_mod files: with or without a declared name, with or without
\* text before it, with or without description, tags and a pad, readable or not
ModTexts ==
    {[decl |-> h.decl, lead |-> h.lead,
      descr |-> IF full THEN "d" ELSE "", tags |-> IF full THEN "t" ELSE "",
      pads |-> IF full THEN 1 ELSE 0, readable |-> r, mtime |-> 0] :
        h \in {[decl |-> "", lead |-> FALSE], [decl |-> "x", lead |-> FALSE],
               [decl |-> "x", lead |-> TRUE]},
        full \in BOOLEAN, r \in BOOLEAN}

SymbolTrees ==
    {[s \in SymLibs |-> IF s = "S1" THEN f ELSE SymLib(<<SymR, SymRUnit>>)] :
        f \in {SymLib(c) : c \in SymTexts}
              \cup {[SymLib(<<SymR, SymRUnit>>) EXCEPT !.readable = FALSE]}}

FootprintTrees ==
    {[l \in PrettyLibs |->
        IF l = "L1"
        THEN [mtime |-> 0, readable |-> TRUE,
              files |-> [NoFiles EXCEPT !["a"] = f1, ![st] = f2]]
        ELSE Lib("a", "")] :
        f1 \in ModTexts, st \in {"", "b"}, f2 \in ModTexts \cup {Absent}}

TreeInit ==
    /\ clock = 0 /\ envOps = 0
    /\ envSet = [f \in Families |-> FALSE]
    /\ \/ /\ loc = [fp |-> "none", sym |-> "share"]
          /\ symfiles \in SymbolTrees
          /\ pretty = [l \in PrettyLibs |-> Absent]
       \/ /\ loc = [fp |-> "share", sym |-> "none"]
          /\ pretty \in FootprintTrees
          /\ symfiles = [s \in SymLibs |-> Absent]
    /\ lib_path = [f \in Families |-> GetLibPath(f)]
    /\ dbExists = TRUE
    /\ tables = {"metadata"}
    /\ data = [t \in FamilyTables |-> <<>>]
    /\ meta = EmptyMeta
    /\ pc = "idle" /\ cur = None /\ todo = <<>> /\ txn = NoTxn /\ pre = NoPre
    /\ ret = [op |-> "init", fam |-> None, err |-> "", count |-> 0, out |-> None]
    /\ unclosed = FALSE
    /\ calls = NoCalls
    /\ fault = "ok" /\ query = <<>> /\ library = NoLibrary /\ limit = DefaultLimit
    /\ tool = ToolIdle

TreeNext == Rebuild

TreeSpec == TreeInit /\ [][TreeNext]_vars

----------------------------------------------------------------------------
(* Properties of the rebuilt rows *)

\* rebuild(f) has returned and nothing was called since
Completed(f) == pc = "idle" /\ ret.op = "rebuild" /\ ret.fam = f /\ ret.err = ""

RowsOfLibrary(f, l) == SelectSeq(data[Primary(f)], LAMBDA r : r.library = l)

\* the declarations of a symbol file directly under its wrapper, but for
\* those named like a sub-unit
IsTopLevel(item) == item.kind = "symbol" /\ item.depth = 1
Declared(content) ==
    SelectSeq(content, LAMBDA item : IsTopLevel(item) /\ ~IsSubUnitName(item.text))

\* C23: after a symbol rebuild no stored record has a name ending in
\* _<digits>_<digits>, and each readable library file has given exactly one
\* record per top-level declaration not so named, and none for a sub-unit.
C23_OneRecordPerTopLevelSymbol ==
    Completed("sym") =>
        /\ \A i \in 1..Len(data["symbols"]) : ~IsSubUnitName(data["symbols"][i].name)
        /\ \A s \in UnitsOf("sym") :
              symfiles[s].readable =>
                 LET rows == RowsOfLibrary("sym", s)
                     decls == Declared(symfiles[s].content)
                 IN /\ Len(rows) = Len(decls)
                    /\ \A i \in 1..Len(rows) : rows[i].name = decls[i].text

\* the positions of the declarations the parser makes records of
Recorded(content) ==
    SelectSeq([i \in 1..Len(content) |-> i],
              LAMBDA i : IsTopLevelMatch(content[i]) /\ ~IsSubUnitName(content[i].text))

\* the text from the declaration at i to the next top-level declaration, or
\* to the end of the file
OwnSpan(content, i) ==
    LET later == {j \in (i + 1)..Len(content) : IsTopLevel(content[j])}
    IN SubSeq(content, i,
              IF later = {} THEN Len(content)
              ELSE (CHOOSE j \in later : \A k \in later : j <= k) - 1)

\* C24: the description, keywords and pin count of each symbol record come
\* from the text between the symbol's declaration and the next top-level
\* declaration (or the end of the file) and from nowhere else: an absent
\* property gives an empty value, and the pins counted are the symbol's own.
C24_PropertiesFromOwnSpan ==
    Completed("sym") =>
        \A s \in UnitsOf("sym") :
            symfiles[s].readable =>
                LET content == symfiles[s].content
                    rows == RowsOfLibrary("sym", s)
                    at == Recorded(content)
                IN \A k \in 1..Len(rows) :
                      k <= Len(at) =>
                        LET own == OwnSpan(content, at[k])
                        IN /\ rows[k].description = FirstProperty(own, "Description")
                           /\ rows[k].keywords = FirstProperty(own, "ki_keywords")
                           /\ rows[k].pin_count = PinCount(own)

\* the .kicad_mod files of a .pretty directory, in the order of their rows
FileAt(l, i) == pretty[l].files[Sorted(FilesOf(l))[i]]

\* C25: every footprint file gives exactly one record; its name is the name
\* the file declares when it declares one (and can be read), the file's stem
\* otherwise; and no record has an empty name.
C25_NameDeclaredOrStem ==
    Completed("fp") =>
        \A l \in UnitsOf("fp") :
            LET rows == RowsOfLibrary("fp", l)
                stems == Sorted(FilesOf(l))
            IN /\ Len(rows) = Len(stems)
               /\ \A i \in 1..Len(rows) :
                     /\ rows[i].name # ""
                     /\ rows[i].name =
                            IF FileAt(l, i).readable /\ FileAt(l, i).decl # ""
                            THEN FileAt(l, i).decl ELSE stems[i]

\* C26: a file that cannot be read does not make a rebuild raise: an
\* unreadable footprint file gives one record with the stem as its name, no
\* description, no tags and no pads; an unreadable symbol file gives no
\* record; and every other file of the family has its records.
C26_UnreadableFileSkipped ==
    /\ (ret.op = "rebuild" /\ ret.err # "") => ~PathUsable(ret.fam)
    /\ Completed("fp") =>
          \A l \in UnitsOf("fp") :
              LET rows == RowsOfLibrary("fp", l)
                  stems == Sorted(FilesOf(l))
              IN /\ Len(rows) = Len(stems)
                 /\ \A i \in 1..Len(rows) :
                       IF FileAt(l, i).readable
                       THEN /\ rows[i].description = FileAt(l, i).descr
                            /\ rows[i].tags = FileAt(l, i).tags
                            /\ rows[i].pad_count = FileAt(l, i).pads
                       ELSE rows[i] = [library |-> l, name |-> stems[i], description |-> "",
                                       tags |-> "", pad_count |-> 0]
    /\ Completed("sym") =>
          \A u \in UnitsOf("sym") :
              IF symfiles[u].readable
              THEN Len(RowsOfLibrary("sym", u)) = Len(Recorded(symfiles[u].content))
              ELSE RowsOfLibrary("sym", u) = <<>>

C26_Witness ==
    /\ Completed("fp") /\ ret.count = 3
    /\ \E m \in FilesOf("L1") :
          /\ ~pretty["L1"].files[m].readable
          /\ pretty["L1"].files[m].decl = "x" /\ pretty["L1"].files[m].descr = "d"
    /\ \E m \in FilesOf("L1") :
          pretty["L1"].files[m].readable /\ pretty["L1"].files[m].descr = "d"

\* full_name = f"{library}:{name}" of a footprint row, lib_id of a symbol row
Identifier(r) == <<r.library, r.name>>

\* C30: after a completed rebuild no two rows of the family have the same
\* identifier, whatever the library tree holds.
C30_IdentifiersUnique ==
    \A f \in Families :
        Completed(f) =>
            \A i, j \in 1..Len(data[Primary(f)]) :
                i # j => Identifier(data[Primary(f)][i]) # Identifier(data[Primary(f)][j])

----------------------------------------------------------------------------
(* The search_footprints tool (tools/pcb_footprints.py): one call asks whether
   the footprint index is stale, rebuilds it if so, searches, and answers
   with a response. Other programs change the disk meanwhile. *)

\* faulty variant: a handler for the path error alone
CaughtPathErrorOnly(e) == e = "RuntimeError"

\* except Exception: every error of the index is an Exception
Caught(e) == e \in {"RuntimeError", "OSError", "OperationalError", "DatabaseError", "TypeError"}

\* the response when error e leaves the try block
Failed(e) == [stage |-> "idle", response |-> IF Caught(e) THEN "error" ELSE "raised"]

\* the sub-sequences of rows
RECURSIVE SubSeqs(_)
SubSeqs(rows) ==
    IF rows = <<>> THEN {<<>>}
    ELSE LET rest == SubSeqs(Tail(rows))
         IN rest \cup {<<Head(rows)>> \o r : r \in rest}

\* index.footprints_stale()
ToolStale ==
    /\ tool.stage = "idle" /\ pc = "idle"
    /\ LET o == StaleOutcome("fp")
       IN /\ ret' = [op |-> "is_stale", fam |-> "fp", err |-> o.err, count |-> 0, out |-> o.out]
          /\ unclosed' = (unclosed \/ o.open)
          /\ tool' = IF o.err # "" THEN Failed(o.err)
                     ELSE [stage |-> IF o.out THEN "rebuild" ELSE "search", response |-> "none"]
    /\ UNCHANGED <<argVars, diskVars, lib_path, storeVars, runVars, calls>>

\* index.rebuild_footprints(), step by step
ToolRebuild ==
    /\ tool.stage = "rebuild"
    /\ pc = "idle" => ret.op = "is_stale"
    /\ RebuildStep("fp")

\* the rebuild has raised: except Exception
ToolFail ==
    /\ tool.stage = "rebuild" /\ pc = "idle"
    /\ ret.op = "rebuild" /\ ret.err # ""
    /\ tool' = Failed(ret.err)
    /\ UNCHANGED <<argVars, diskVars, lib_path, storeVars, runVars, ret, unclosed, calls>>

\* index.search_footprints(query, ...) and the "ok" response. The rows found
\* are some of the rows the search table holds (which, is the subject of the
\* search properties); a missing table makes the statement fail, and the
\* search returns [].
ToolSearch ==
    /\ pc = "idle"
    /\ \/ tool.stage = "search"
       \/ tool.stage = "rebuild" /\ ret.op = "rebuild" /\ ret.err = ""
    /\ IF IsBlank(query)
       THEN ret' = SearchReturned("fp", <<>>) /\ UNCHANGED dbExists
       ELSE /\ \E rows \in SubSeqs(SearchableRows("fp")) :
                    ret' = SearchReturned("fp", Limit(rows, limit))
            /\ dbExists' = TRUE
    /\ tool' = [stage |-> "idle", response |-> "ok"]
    /\ UNCHANGED <<argVars, diskVars, lib_path, tables, data, meta, runVars, unclosed, calls>>

\* a new process: the singleton index is constructed again
ToolStart == tool.stage = "idle" /\ Construct

ToolInit == \E q \in {<<>>, <<"a">>} : InitWith(q)

ToolNext == ToolStale \/ ToolRebuild \/ ToolFail \/ ToolSearch \/ ToolStart \/ Disk

ToolSpec == ToolInit /\ [][ToolNext]_vars

\* C27: the tool asks is_stale, rebuilds if stale, then searches: a response
\* "ok" is given right after is_stale answered "not stale" in this call or
\* after the rebuild of this call returned; a root that is unresolved is
\* reported stale, so that the rebuild is tried, and with no root path the
\* call ends with the error response; and no exception leaves the tool.
C27_StaleRebuildSearch ==
    [][/\ (tool.stage # "idle" /\ tool'.response = "ok") =>
            \/ ret.op = "is_stale" /\ ret.err = "" /\ ret.out = FALSE
            \/ ret.op = "rebuild" /\ ret.fam = "fp" /\ ret.err = ""
       /\ (tool.stage = "idle" /\ tool'.stage # "idle" /\ Unresolved("fp")) =>
            tool'.stage = "rebuild"
       /\ (tool.stage # "idle" /\ tool'.stage = "idle" /\ lib_path["fp"] = None) =>
            tool'.response = "error"
       /\ tool'.response # "raised"]_vars

C27_Witness ==
    /\ tool = [stage |-> "idle", response |-> "ok"]
    /\ ret.op = "search" /\ ret.count > 0
    /\ calls["fp"] # <<>> /\ calls["fp"][Len(calls["fp"])].done

----------------------------------------------------------------------------
(* Changes made while a rebuild runs, and the store file deleted under the
   index object *)

\* the rows the running rebuild has collected for unit u are not those the
\* unit gives now, and the unit carries the time of the latest write to the
\* disk: it was modified after the rebuild had scanned it
ChangedSinceScanned(f, u) ==
    /\ SelectSeq(txn.rows, LAMBDA r : r.library = u) # RowsOfUnit(f, u)
    /\ clock > 0 /\ UnitMtime(f, u) = clock

\* C28: when rebuild(f) returns, a unit that was changed during the rebuild
\* after it had been scanned (so that its change is not in the index) makes
\* the next is_stale(f) true.
C28_ChangeDuringRebuildIsStale ==
    [][\A f \in Families :
            (/\ Returns(f)
             /\ IsDir(f, lib_path[f]) /\ AllReadable
             /\ \E u \in UnitsOf(f) : ChangedSinceScanned(f, u))
                => IsStale(f)']_vars

\* C29: the store file deleted under the index object and the root still an
\* existing directory, is_stale(f) is true and the rebuild that follows gets
\* through: it does not fail on the store.
C29_RebuildAfterStoreDeleted ==
    [][\A f \in Families :
            /\ (~dbExists /\ PathUsable(f)) => IsStale(f)
            /\ (Raises(f) /\ IsDir(f, lib_path[f])) => ret'.err # "OperationalError"]_vars

====
